---- MODULE Spec2Model ----
(***************************************************************************)
(* Message synchronisation of iuselinux: the message store read by         *)
(* get_messages, the GET /poll route, the /ws push loop, and the terminal  *)
(* client's MessageList / HomeScreen that merge page loads, backfill and   *)
(* pushed batches.                                                         *)
(*                                                                         *)
(* Optional values (Python's None | int) are sequences of length <= 1:     *)
(* None is <<>> and the value n is <<n>>.                                  *)
(***************************************************************************)
EXTENDS Integers, Sequences, FiniteSets, TLC

VARIABLES
    store,      \* chat.db: the message rows, in ROWID order (row i has id i)
    poll,       \* one HTTP client's polling session against GET /poll
    ws,         \* one /ws connection's server-side loop (websocket_endpoint)
    hs,         \* HomeScreen: _current_chat and the handler its pump is inside
    ml,         \* MessageList: the fields set in __init__
    bubbles,    \* MessageList's mounted MessageBubble children, top to bottom
    inflight,   \* _load_more_messages calls awaiting app.api.get_messages
    obs,        \* what the last step did (the last batch, the last send result)
    client,     \* the TUI's WebSocketClient and the listener task over it
    snd,        \* the send routes: _send_timestamps, the clock, the requests
    compose     \* ComposeScreen: _sending, its inputs, its send workers

vars == <<store, poll, ws, hs, ml, bubbles, inflight, obs, client, snd, compose>>

----------------------------------------------------------------------------
(* Bounds of the model *)

\* Rows the store may hold.
MaxRows == 3
\* Largest limit a poll session passes to GET /poll.
MaxLimit == 2
\* Calls of one poll session.
MaxCalls == 3
\* The batch limit of the /ws loop (100 in websocket_endpoint).
WsBatchLimit == 2
\* Poll cycles between two pings of the /ws loop (30 in websocket_endpoint).
PingCycles == 3
\* Rows the store may hold while the terminal client runs.
MaxTuiRows == 2
\* Messages per page of the terminal client (50 in message_list.py).
PAGE_SIZE == 1
\* _load_more_messages calls that may await their fetch at once.
MaxInflight == 2
\* Optimistic bubbles that may be mounted at once.
MaxPending == 1
MaxResubmits == 2
\* _send_message workers of one ComposeScreen, scheduled or awaiting the API.
MaxComposeSends == 2
\* Entries _messages may hold (stale pages and re-added rows make it grow).
MaxList == 3

Chats == {1, 2}
\* message.date values (nanosecond timestamps in chat.db).
Dates == {1, 2}
Texts == {"a", "b"}

None == <<>>
Some(x) == <<x>>
IsNone(o) == o = <<>>
Val(o) == o[1]

Range(s) == {s[i] : i \in 1..Len(s)}
Min2(a, b) == IF a <= b THEN a ELSE b
Max2(a, b) == IF a >= b THEN a ELSE b
SetMin(S) == CHOOSE x \in S : \A y \in S : x <= y
SetMax(S) == CHOOSE x \in S : \A y \in S : x >= y

RECURSIVE Reverse(_)
Reverse(s) == IF s = <<>> THEN <<>> ELSE Append(Reverse(Tail(s)), Head(s))

\* s[:n] of Python.
PySliceTo(s, n) ==
    IF n >= 0 THEN SubSeq(s, 1, Min2(n, Len(s)))
    ELSE SubSeq(s, 1, Max2(Len(s) + n, 0))

\* The ids of a sequence of rows.
Ids(rows) == [i \in 1..Len(rows) |-> rows[i].rowid]

\* The elements of a set of integers as an ascending sequence.
RECURSIVE Ascending(_)
Ascending(S) ==
    IF S = {} THEN <<>>
    ELSE LET m == SetMin(S) IN <<m>> \o Ascending(S \ {m})

\* obs after a step that sends no frame, handles no batch and ends no send.
ObsNone == [kind |-> "none"]

----------------------------------------------------------------------------
(* The message store (chat.db, owned by Messages.app) *)

\* A row of the message table joined with chat_message_join, as the Message
\* dataclass carries it.
Message(rowid, date, chat_id, is_from_me, text) ==
    [rowid |-> rowid, date |-> date, chat_id |-> chat_id,
     is_from_me |-> is_from_me, text |-> text]

\* Messages.app inserts a row: the next ROWID, any chat, any message.date (the
\* date is the message's own timestamp, not the insertion time).
StoreInsert(date, chat_id, is_from_me, text) ==
    /\ Len(store) < MaxRows
    /\ store' = Append(store,
                       Message(Len(store) + 1, date, chat_id, is_from_me, text))

\* The rows the store held when it had n rows (rows are never changed).
StoreAt(n) == SubSeq(store, 1, n)

\* The orders SQLite may return the rows S in under ORDER BY message.date DESC
\* (rows of equal date come in any order).
RECURSIVE OrderByDateDesc(_)
OrderByDateDesc(S) ==
    IF S = {} THEN {<<>>}
    ELSE UNION { { <<r>> \o t : t \in OrderByDateDesc(S \ {r}) } :
                 r \in {x \in S : \A y \in S : y.date <= x.date} }

\* LIMIT n of SQLite: a negative n is no limit.
SqlLimit(s, n) == IF n < 0 THEN s ELSE SubSeq(s, 1, Min2(n, Len(s)))

\* The WHERE clause of get_messages over the rows `rows`.
Where(rows, chat_id, after_rowid) ==
    {r \in Range(rows) :
        /\ (IsNone(chat_id) \/ r.chat_id = Val(chat_id))
        /\ (IsNone(after_rowid) \/ r.rowid > Val(after_rowid))}

\* A bug to detect: the watermark row itself is selected again.
get_messages_ge(rows, chat_id, limit, after_rowid) ==
    { SqlLimit(s, limit) :
        s \in OrderByDateDesc(
            {r \in Range(rows) :
                /\ (IsNone(chat_id) \/ r.chat_id = Val(chat_id))
                /\ (IsNone(after_rowid) \/ r.rowid >= Val(after_rowid))}) }

\* get_messages(chat_id, limit, after_rowid): the lists it may return, newest
\* message.date first.
get_messages(rows, chat_id, limit, after_rowid) ==
    { SqlLimit(s, limit) :
        s \in OrderByDateDesc(Where(rows, chat_id, after_rowid)) }

----------------------------------------------------------------------------
(* GET /poll *)

PollResponse(messages, last_rowid, has_more) ==
    [messages |-> messages, last_rowid |-> last_rowid, has_more |-> has_more]

\* The response built from the fetched list.
PollBuild(fetched, after_rowid, limit) ==
    LET reversed == Reverse(fetched)
        has_more == Len(reversed) > limit
        messages == IF has_more THEN PySliceTo(reversed, limit) ELSE reversed
        last_rowid == IF messages # <<>> THEN messages[Len(messages)].rowid
                      ELSE after_rowid
    IN PollResponse(messages, last_rowid, has_more)

\* A bug to detect: the probe row is not requested.
poll_messages_noprobe(rows, after_rowid, chat_id, limit) ==
    { PollBuild(fetched, after_rowid, limit) :
        fetched \in get_messages(rows, chat_id, limit, Some(after_rowid)) }

\* poll_messages(after_rowid, chat_id, limit): the responses it may give.
poll_messages(rows, after_rowid, chat_id, limit) ==
    { PollBuild(fetched, after_rowid, limit) :
        fetched \in get_messages(rows, chat_id, limit + 1, Some(after_rowid)) }

\* The polling session of a client that follows the documented loop.
PollIdle ==
    [chat_id |-> None, limit |-> 0, start |-> 0, after_rowid |-> 0,
     calls |-> 0, received |-> <<>>, caught_up |-> FALSE,
     in_after |-> 0, in_len |-> 0, resp |-> PollResponse(<<>>, 0, FALSE),
     prev_more |-> TRUE, prev_len |-> 0, start_len |-> 0]

\* The client starts a loop at after_rowid = w.
PollStart(w, chat_id, limit) ==
    /\ poll = PollIdle
    /\ poll' = [PollIdle EXCEPT !.chat_id = chat_id, !.limit = limit,
                                !.start = w, !.after_rowid = w,
                                !.start_len = Len(store)]
    /\ UNCHANGED <<store, ws, hs, ml, bubbles, inflight, obs, client, snd, compose>>

\* One GET /poll with the stored watermark; the client stores last_rowid.
PollCall ==
    /\ poll.calls < MaxCalls
    /\ \E resp \in poll_messages(store, poll.after_rowid, poll.chat_id, poll.limit) :
         poll' = [poll EXCEPT
                    !.calls = @ + 1,
                    !.in_after = poll.after_rowid,
                    !.in_len = Len(store),
                    !.resp = resp,
                    !.prev_more = IF poll.calls = 0 THEN TRUE
                                  ELSE poll.resp.has_more,
                    !.prev_len = poll.in_len,
                    !.received = IF poll.caught_up THEN @
                                 ELSE @ \o Ids(resp.messages),
                    !.caught_up = @ \/ ~resp.has_more,
                    !.after_rowid = resp.last_rowid]
    /\ UNCHANGED <<store, ws, hs, ml, bubbles, inflight, obs, client, snd, compose>>

\* dict.get(key, default) on the decoded JSON object.
get(data, key, default) == IF key \in DOMAIN data THEN data[key] ELSE default

\* APIClient.poll_messages (tui/client.py) on the body /poll answered: the
\* pair (messages, latest) it returns.
APIClient_poll_messages(data, after_rowid) ==
    <<get(data, "messages", <<>>), get(data, "latest_rowid", after_rowid)>>

\* One turn of a loop over APIClient.poll_messages: the client calls it with
\* its stored value and stores the second element of the result.
ApiClientPoll ==
    /\ poll.calls < MaxCalls
    /\ \E data \in poll_messages(store, poll.after_rowid, poll.chat_id, poll.limit) :
         LET result == APIClient_poll_messages(data, poll.after_rowid)
         IN poll' = [poll EXCEPT
                       !.calls = @ + 1,
                       !.in_after = poll.after_rowid,
                       !.in_len = Len(store),
                       !.resp = data,
                       !.prev_more = IF poll.calls = 0 THEN TRUE
                                     ELSE poll.resp.has_more,
                       !.prev_len = poll.in_len,
                       !.received = @ \o Ids(result[1]),
                       !.caught_up = @ \/ ~data.has_more,
                       !.after_rowid = result[2]]
    /\ UNCHANGED <<store, ws, hs, ml, bubbles, inflight, obs, client, snd, compose>>

----------------------------------------------------------------------------
(* /ws: websocket_endpoint, one connection *)

\* state: "closed", "polling" (at the top of the loop) or "waiting" (inside
\* wait_for(receive_json)). init_len and reset record the store size when Init
\* ran and whether the client has sent set_after_rowid since; fail_len records
\* the store size when the fetches began to fail (None: the last fetch
\* succeeded). quiet is None, or when the connection's poll cycles are being
\* counted the number of cycles since the last ping frame or client message,
\* up to PingCycles.
WsClosed ==
    [state |-> "closed", chat_id |-> None, last_rowid |-> 0, ping_counter |-> 0,
     init_len |-> 0, reset |-> FALSE, fail_len |-> None, quiet |-> None]

\* One more poll cycle, with or without a ping frame.
Cycle(quiet, pinged) ==
    IF IsNone(quiet) THEN quiet
    ELSE IF pinged THEN Some(0)
    ELSE Some(Min2(Val(quiet) + 1, PingCycles))

\* A bug to detect: the rows are sorted newest first.
RECURSIVE SortByRowid_desc(_)
SortByRowid_desc(S) ==
    IF S = {} THEN <<>>
    ELSE LET m == CHOOSE x \in S : \A y \in S : x.rowid >= y.rowid
         IN <<m>> \o SortByRowid_desc(S \ {m})

\* new_messages.sort(key=lambda m: m.rowid)
RECURSIVE SortByRowid(_)
SortByRowid(S) ==
    IF S = {} THEN <<>>
    ELSE LET m == CHOOSE x \in S : \A y \in S : x.rowid <= y.rowid
         IN <<m>> \o SortByRowid(S \ {m})

WsFrames(frames, used) == [kind |-> "ws", frames |-> frames, used |-> used]

\* accept, then Init: last_rowid is the rowid of get_messages(limit=1)[0], or 0.
WsAccept(chat_id, quiet) ==
    /\ ws.state = "closed"
    /\ \E messages \in get_messages(store, chat_id, 1, None) :
         ws' = [state |-> "polling", chat_id |-> chat_id,
                last_rowid |-> IF messages # <<>> THEN messages[1].rowid ELSE 0,
                ping_counter |-> 0, init_len |-> Len(store), reset |-> FALSE,
                fail_len |-> None, quiet |-> quiet]
    /\ obs' = WsFrames(<<>>, 0)
    /\ UNCHANGED <<store, poll, hs, ml, bubbles, inflight, client, snd, compose>>

WsConnect(chat_id) == WsAccept(chat_id, None)

\* Init's fetch raises: an error frame, then close.
WsConnectError ==
    /\ ws.state = "closed"
    /\ ws' = WsClosed
    /\ obs' = WsFrames(<<[type |-> "error"]>>, 0)
    /\ UNCHANGED <<store, poll, hs, ml, bubbles, inflight, client, snd, compose>>

\* A bug to detect: a cycle that finds no row starts the watermark over, as
\* Init does on an empty scope.
WsPoll_restart ==
    /\ ws.state = "polling"
    /\ \E fetched \in get_messages(store, ws.chat_id, WsBatchLimit,
                                    Some(ws.last_rowid)) :
         LET new_messages == SortByRowid(Range(fetched))
             last_rowid == IF new_messages # <<>>
                           THEN new_messages[Len(new_messages)].rowid
                           ELSE 0
             push == IF new_messages # <<>>
                     THEN <<[type |-> "messages", data |-> new_messages,
                             last_rowid |-> last_rowid]>>
                     ELSE <<>>
             counter == ws.ping_counter + 1
             ping == IF counter >= PingCycles THEN <<[type |-> "ping"]>> ELSE <<>>
         IN /\ ws' = [ws EXCEPT !.state = "waiting",
                                 !.last_rowid = last_rowid,
                                 !.ping_counter = IF counter >= PingCycles THEN 0
                                                  ELSE counter,
                                 !.fail_len = None,
                                 !.quiet = Cycle(@, ping # <<>>)]
            /\ obs' = WsFrames(push \o ping, ws.last_rowid)
    /\ UNCHANGED <<store, poll, hs, ml, bubbles, inflight, client, snd, compose>>

\* One poll cycle whose fetch succeeds: push the rows (sorted by rowid), move
\* the watermark, count towards the ping, then wait for the client.
WsPoll ==
    /\ ws.state = "polling"
    /\ \E fetched \in get_messages(store, ws.chat_id, WsBatchLimit,
                                    Some(ws.last_rowid)) :
         LET new_messages == SortByRowid(Range(fetched))
             last_rowid == IF new_messages # <<>>
                           THEN new_messages[Len(new_messages)].rowid
                           ELSE ws.last_rowid
             push == IF new_messages # <<>>
                     THEN <<[type |-> "messages", data |-> new_messages,
                             last_rowid |-> last_rowid]>>
                     ELSE <<>>
             counter == ws.ping_counter + 1
             ping == IF counter >= PingCycles THEN <<[type |-> "ping"]>> ELSE <<>>
         IN /\ ws' = [ws EXCEPT !.state = "waiting",
                                 !.last_rowid = last_rowid,
                                 !.ping_counter = IF counter >= PingCycles THEN 0
                                                  ELSE counter,
                                 !.fail_len = None,
                                 !.quiet = Cycle(@, ping # <<>>)]
            /\ obs' = WsFrames(push \o ping, ws.last_rowid)
    /\ UNCHANGED <<store, poll, hs, ml, bubbles, inflight, client, snd, compose>>

\* One poll cycle whose fetch raises: an error frame, sleep, continue.
WsPollError ==
    /\ ws.state = "polling"
    /\ ws' = [ws EXCEPT !.fail_len = IF IsNone(@) THEN Some(Len(store)) ELSE @,
                         !.quiet = Cycle(@, FALSE)]
    /\ obs' = WsFrames(<<[type |-> "error"]>>, ws.last_rowid)
    /\ UNCHANGED <<store, poll, hs, ml, bubbles, inflight, client, snd, compose>>

\* wait_for(receive_json) times out.
WsTimeout ==
    /\ ws.state = "waiting"
    /\ ws' = [ws EXCEPT !.state = "polling"]
    /\ obs' = WsFrames(<<>>, ws.last_rowid)
    /\ UNCHANGED <<store, poll, hs, ml, bubbles, inflight, client, snd, compose>>

\* The command the loop has just read, and the watermark it found.
WsCommand(type, rowid, used) ==
    [kind |-> "cmd", type |-> type, rowid |-> rowid, used |-> used]

\* A bug to detect: a command only moves the watermark forward.
WsReceive_forward(type, rowid) ==
    /\ ws.state = "waiting"
    /\ ws' = [ws EXCEPT
                !.state = "polling",
                !.last_rowid = IF type = "set_after_rowid" /\ ~IsNone(rowid)
                               THEN Max2(@, Val(rowid)) ELSE @,
                !.reset = @ \/ (type = "set_after_rowid" /\ ~IsNone(rowid)),
                !.quiet = IF IsNone(@) THEN @ ELSE Some(0)]
    /\ obs' = WsCommand(type, rowid, ws.last_rowid)
    /\ UNCHANGED <<store, poll, hs, ml, bubbles, inflight, client, snd, compose>>

\* The client sends a command: type is "set_after_rowid" or something else,
\* rowid is the optional "rowid" field.
WsReceive(type, rowid) ==
    /\ ws.state = "waiting"
    /\ ws' = [ws EXCEPT
                !.state = "polling",
                !.last_rowid = IF type = "set_after_rowid" /\ ~IsNone(rowid)
                               THEN Val(rowid) ELSE @,
                !.reset = @ \/ (type = "set_after_rowid" /\ ~IsNone(rowid)),
                !.quiet = IF IsNone(@) THEN @ ELSE Some(0)]
    /\ obs' = WsCommand(type, rowid, ws.last_rowid)
    /\ UNCHANGED <<store, poll, hs, ml, bubbles, inflight, client, snd, compose>>

\* The peer goes away: receive_json raises WebSocketDisconnect.
WsDisconnect ==
    /\ ws.state = "waiting"
    /\ ws' = WsClosed
    /\ obs' = WsFrames(<<>>, 0)
    /\ UNCHANGED <<store, poll, hs, ml, bubbles, inflight, client, snd, compose>>

----------------------------------------------------------------------------
(* The terminal client: MessageList, MessageBubble, HomeScreen *)

\* Textual runs the handlers of one widget one after the other: HomeScreen
\* starts on_chat_selected, on_message_submitted or on_new_messages only when
\* its previous handler has returned (hs.handler = "idle"). The worker that
\* on_scroll_y starts for _load_more_messages runs beside them.

\* get_messages(chat_id, limit, before_rowid=b) of iuselinux/messages.py: the
\* limit rows of the chat that immediately precede rowid b, ascending.
get_messages_before(rows, chat_id, limit, before_rowid) ==
    LET older == {r \in Range(rows) : r.chat_id = chat_id /\ r.rowid < before_rowid}
        page == SortByRowid(older)
    IN { SubSeq(page, Max2(Len(page) - limit, 0) + 1, Len(page)) }

\* MessageBubble(message, pending=...)
MessageBubble(message, pending) ==
    [message |-> message, pending |-> pending, failed |-> FALSE]

\* MessageBubble.confirm, after bubble.message = message
confirm(bubble, message) ==
    [message |-> message, pending |-> FALSE, failed |-> FALSE]

\* MessageBubble.mark_failed
mark_failed(bubble) == [bubble EXCEPT !.pending = FALSE, !.failed = TRUE]

\* The first mounted bubble that is pending with this text (0: none).
FirstPending(bs, text) ==
    LET hit == {i \in 1..Len(bs) : bs[i].pending /\ bs[i].message.text = text}
    IN IF hit = {} THEN 0 ELSE SetMin(hit)

\* MessageList._render_messages: the children after it, one bubble per entry
\* of _messages, oldest (last of the list) on top.
render_messages(messages) ==
    LET rev == Reverse(messages)
    IN [i \in 1..Len(rev) |-> MessageBubble(rev[i], FALSE)]

\* The state add_message works on: the list's fields, its bubbles, and how
\* each row of the batch was handled so far.
ListState(m, bs) == [ml |-> m, bubbles |-> bs, confirmed |-> {}, added |-> {}]

\* The new-message branch of add_message.
AddNew(st, m, message) ==
    [st EXCEPT
        !.ml = [m EXCEPT !.seen_rowids = @ \cup {message.rowid},
                         !.messages = <<message>> \o @],
        !.bubbles = Append(@, MessageBubble(message, FALSE))]

\* A bug to detect: a new message is mounted above the others.
add_message_top(st, message) ==
    IF message.rowid \in st.ml.seen_rowids THEN st
    ELSE IF message.is_from_me /\ message.text \in st.ml.pending_texts
    THEN LET m1 == [st.ml EXCEPT !.pending_texts = @ \ {message.text},
                                 !.seen_rowids = @ \cup {message.rowid}]
             i == FirstPending(st.bubbles, message.text)
             st1 == [st EXCEPT !.confirmed = @ \cup {message.rowid}]
         IN IF i # 0
            THEN [st1 EXCEPT !.ml = m1,
                             !.bubbles = [@ EXCEPT ![i] = confirm(@, message)]]
            ELSE AddNew(st1, m1, message)
    ELSE [st EXCEPT
            !.ml = [@ EXCEPT !.seen_rowids = @ \cup {message.rowid},
                             !.messages = <<message>> \o @],
            !.bubbles = <<MessageBubble(message, FALSE)>> \o @,
            !.added = @ \cup {message.rowid}]

\* MessageList.add_message
add_message(st, message) ==
    IF message.rowid \in st.ml.seen_rowids THEN st
    ELSE IF message.is_from_me /\ message.text \in st.ml.pending_texts
    THEN LET m1 == [st.ml EXCEPT !.pending_texts = @ \ {message.text},
                                 !.seen_rowids = @ \cup {message.rowid}]
             i == FirstPending(st.bubbles, message.text)
             st1 == [st EXCEPT !.confirmed = @ \cup {message.rowid}]
         IN IF i # 0
            THEN [st1 EXCEPT !.ml = m1,
                             !.bubbles = [@ EXCEPT ![i] = confirm(@, message)]]
            ELSE AddNew(st1, m1, message)
    ELSE AddNew([st EXCEPT !.added = @ \cup {message.rowid}], st.ml, message)

\* The loop of HomeScreen.on_new_messages over the batch.
RECURSIVE AddBatch(_, _, _)
AddBatch(st, batch, chat_id) ==
    IF batch = <<>> THEN st
    ELSE AddBatch(IF Head(batch).chat_id = chat_id
                  THEN add_message(st, Head(batch)) ELSE st,
                  Tail(batch), chat_id)

\* The batches the listener may hand over: rows of the store, ascending by
\* rowid as /ws sends them, at most the batch limit. Rows already delivered
\* may come again (a reconnect, a reset watermark).
Batches ==
    { SortByRowid(S) : S \in {T \in SUBSET Range(store) :
                                T # {} /\ Cardinality(T) <= WsBatchLimit} }

\* What a processed batch did: the rows that confirmed a pending entry and the
\* rows mounted as new messages.
BatchDone(confirmed, added) ==
    [kind |-> "batch", confirmed |-> confirmed, added |-> added]

\* HomeScreen.on_new_messages
OnNewMessages(batch) ==
    /\ hs.handler = "idle"
    /\ ~IsNone(hs.current_chat)
    /\ LET st == AddBatch(ListState(ml, bubbles), batch, Val(hs.current_chat))
       IN /\ ml' = st.ml
          /\ bubbles' = st.bubbles
          /\ Len(st.ml.messages) <= MaxList
          /\ obs' = BatchDone(st.confirmed, st.added)
    /\ UNCHANGED <<store, poll, ws, hs, inflight, client, snd, compose>>

\* HomeScreen.on_chat_selected up to the await in MessageList.load_chat.
SelectChat(chat_id) ==
    /\ hs.handler = "idle"
    /\ hs' = [hs EXCEPT !.current_chat = Some(chat_id),
                        !.handler = "on_chat_selected"]
    /\ ml' = [ml EXCEPT !.current_chat = Some(chat_id),
                        !.pending_texts = {},
                        !.seen_rowids = {},
                        !.oldest_rowid = None,
                        !.has_more = TRUE,
                        !.loading_more = FALSE]
    /\ bubbles' = <<>>
    /\ obs' = ObsNone
    /\ UNCHANGED <<store, poll, ws, inflight, client, snd, compose>>

\* load_chat after the await: the page arrived.
LoadChatOk ==
    /\ hs.handler = "on_chat_selected"
    /\ \E messages \in get_messages(store, hs.current_chat, PAGE_SIZE, None) :
         /\ ml' = [ml EXCEPT
                     !.messages = messages,
                     !.seen_rowids = Range(Ids(messages)),
                     !.oldest_rowid = IF messages # <<>>
                                      THEN Some(SetMin(Range(Ids(messages))))
                                      ELSE @,
                     !.has_more = IF messages # <<>>
                                  THEN Len(messages) = PAGE_SIZE ELSE FALSE]
         /\ bubbles' = render_messages(messages)
    /\ hs' = [hs EXCEPT !.handler = "idle"]
    /\ obs' = ObsNone
    /\ UNCHANGED <<store, poll, ws, inflight, client, snd, compose>>

\* load_chat after the await: the fetch raised.
LoadChatError ==
    /\ hs.handler = "on_chat_selected"
    /\ bubbles' = <<>>
    /\ hs' = [hs EXCEPT !.handler = "idle"]
    /\ obs' = ObsNone
    /\ UNCHANGED <<store, poll, ws, ml, inflight, client, snd, compose>>

\* A bug to detect: a load starts although no older message is left.
LoadMoreStart_nocheck ==
    /\ ~ml.loading_more /\ ~IsNone(ml.current_chat)
    /\ ~IsNone(ml.oldest_rowid)
    /\ Len(inflight) < MaxInflight
    /\ ml' = [ml EXCEPT !.loading_more = TRUE]
    /\ inflight' = Append(inflight, [chat_id |-> Val(ml.current_chat),
                                     before_rowid |-> Val(ml.oldest_rowid)])
    /\ obs' = ObsNone
    /\ UNCHANGED <<store, poll, ws, hs, bubbles, client, snd, compose>>

\* _load_more_messages up to its await (from action_load_more or the worker
\* of on_scroll_y): the guards, then the request.
LoadMoreStart ==
    /\ ml.has_more /\ ~ml.loading_more /\ ~IsNone(ml.current_chat)
    /\ ~IsNone(ml.oldest_rowid)
    /\ Len(inflight) < MaxInflight
    /\ ml' = [ml EXCEPT !.loading_more = TRUE]
    /\ inflight' = Append(inflight, [chat_id |-> Val(ml.current_chat),
                                     before_rowid |-> Val(ml.oldest_rowid)])
    /\ obs' = ObsNone
    /\ UNCHANGED <<store, poll, ws, hs, bubbles, client, snd, compose>>

RemoveAt(s, i) == SubSeq(s, 1, i - 1) \o SubSeq(s, i + 1, Len(s))

\* _load_more_messages after its await: the older page arrived.
LoadMoreOk(i) ==
    /\ i \in 1..Len(inflight)
    /\ \E older \in get_messages_before(store, inflight[i].chat_id, PAGE_SIZE,
                                        inflight[i].before_rowid) :
         IF older = <<>>
         THEN /\ ml' = [ml EXCEPT !.has_more = FALSE, !.loading_more = FALSE]
              /\ UNCHANGED bubbles
         ELSE LET messages == ml.messages \o older
              IN /\ Len(messages) <= MaxList
                 /\ ml' = [ml EXCEPT
                             !.seen_rowids = @ \cup Range(Ids(older)),
                             !.messages = messages,
                             !.oldest_rowid = Some(SetMin(Range(Ids(older)))),
                             !.has_more = (Len(older) = PAGE_SIZE),
                             !.loading_more = FALSE]
                 /\ bubbles' = render_messages(messages)
    /\ inflight' = RemoveAt(inflight, i)
    /\ obs' = ObsNone
    /\ UNCHANGED <<store, poll, ws, hs, client, snd, compose>>

\* _load_more_messages after its await: the fetch raised.
LoadMoreError(i) ==
    /\ i \in 1..Len(inflight)
    /\ ml' = [ml EXCEPT !.loading_more = FALSE]
    /\ inflight' = RemoveAt(inflight, i)
    /\ obs' = ObsNone
    /\ UNCHANGED <<store, poll, ws, hs, bubbles, client, snd, compose>>

\* The optimistic bubbles among bs.
Optimistic(bs) == {i \in 1..Len(bs) : bs[i].message.rowid = -1}

\* MessageList.add_pending_message: the bubbles after it.
add_pending_message(bs, text, chat_id) ==
    Append(bs, MessageBubble(Message(-1, 0, chat_id, TRUE, text), TRUE))

\* HomeScreen.on_message_submitted up to the await of send_message.
\* on_message_submitted has no guard on what is already pending; max_pending
\* only bounds the number of optimistic bubbles the model explores.
SubmitWithin(text, max_pending) ==
    /\ hs.handler = "idle"
    /\ ~IsNone(hs.current_chat)
    /\ Cardinality(Optimistic(bubbles)) < max_pending
    /\ ml' = [ml EXCEPT !.pending_texts = @ \cup {text}]
    /\ bubbles' = add_pending_message(bubbles, text,
                      IF IsNone(ml.current_chat) THEN 0 ELSE Val(ml.current_chat))
    /\ hs' = [hs EXCEPT !.handler = "on_message_submitted", !.text = text]
    /\ obs' = ObsNone
    /\ UNCHANGED <<store, poll, ws, inflight, client, snd, compose>>

Submit(text) == SubmitWithin(text, MaxPending)

\* on_message_submitted after the await: send_message returned True.
SendOk ==
    /\ hs.handler = "on_message_submitted"
    /\ hs' = [hs EXCEPT !.handler = "idle", !.text = ""]
    /\ obs' = ObsNone
    /\ UNCHANGED <<store, poll, ws, ml, bubbles, inflight, client, snd, compose>>

\* MessageList.mark_message_failed: the bubbles after it.
mark_message_failed(bs, text) ==
    LET i == FirstPending(bs, text)
    IN IF i = 0 THEN bs ELSE [bs EXCEPT ![i] = mark_failed(@)]

\* self.notify(..., severity = ...): the toast the user sees.
Notified(severity) == [kind |-> "notify", severity |-> severity]

\* on_message_submitted after the await: send_message returned False or raised.
SendFailed ==
    /\ hs.handler = "on_message_submitted"
    /\ bubbles' = mark_message_failed(bubbles, hs.text)
    /\ hs' = [hs EXCEPT !.handler = "idle", !.text = ""]
    /\ obs' = Notified("error")
    /\ UNCHANGED <<store, poll, ws, ml, inflight, client, snd, compose>>

\* Messages.app inserts a row of any chat: a received message, or a message of
\* the user (sent by this client or from another device). Its date is its
\* insertion time here: the client's merge reads no date.
InsertRow ==
    /\ Len(store) < MaxTuiRows
    /\ \E chat_id \in Chats,
          is_from_me \in BOOLEAN :
         StoreInsert(Len(store) + 1, chat_id, is_from_me, "a")
    /\ obs' = ObsNone
    /\ UNCHANGED <<poll, ws, hs, ml, bubbles, inflight, client, snd, compose>>

----------------------------------------------------------------------------
(* The terminal client's listener: WebSocketClient and the task IMessageApp
   runs over it *)

max_reconnect_delay == 30

\* WebSocketClient.__init__ in IMessageApp.__init__: no socket, not running,
\* and no listener task yet (pc "init"). connected is the header's indicator.
WebSocketClientInit ==
    [running |-> FALSE, has_ws |-> FALSE, reconnect_delay |-> 1,
     pc |-> "init", stop_called |-> FALSE, connected |-> FALSE]

\* WebSocketClient.connect returning True: the socket, the flag, the delay.
connect(c) ==
    [c EXCEPT !.has_ws = TRUE, !.running = TRUE, !.reconnect_delay = 1]

\* IMessageApp._start_websocket: the task is created and listen() is entered;
\* the listener stands at its loop test.
StartWebsocket ==
    /\ client.pc = "init"
    /\ client' = [client EXCEPT !.pc = "while"]
    /\ obs' = ObsNone
    /\ UNCHANGED <<store, poll, ws, hs, ml, bubbles, inflight, snd, compose>>

\* One step of WebSocketClient.listen, from one await to the next:
\*   "while"   the loop test `while self._running`, then `if not self._ws`;
\*   "connect" connect() answered (ok or not), on_connected of the app;
\*   "recv"    recv() answered: a messages frame handed to on_messages and
\*             through the app to HomeScreen.on_new_messages, another frame
\*             (error, ping), or the connection closed.
Listen ==
    /\ client.pc \in {"while", "connect", "recv"}
    /\ CASE client.pc = "while" ->
              /\ client' = [client EXCEPT
                              !.pc = IF ~client.running THEN "returned"
                                     ELSE IF ~client.has_ws THEN "connect"
                                     ELSE "recv"]
              /\ obs' = ObsNone
              /\ UNCHANGED <<ml, bubbles>>
         [] client.pc = "connect" ->
              \E ok \in BOOLEAN :
                /\ client' = IF ok
                             THEN [connect(client) EXCEPT !.connected = TRUE,
                                                          !.pc = "recv"]
                             ELSE [client EXCEPT
                                     !.reconnect_delay =
                                         Min2(@ * 2, max_reconnect_delay),
                                     !.pc = "while"]
                /\ obs' = IF ok THEN Notified("information") ELSE ObsNone
                /\ UNCHANGED <<ml, bubbles>>
         [] client.pc = "recv" ->
              \/ /\ client.has_ws
                 /\ hs.handler = "idle"
                 /\ \E batch \in Batches :
                      LET st == IF IsNone(hs.current_chat)
                                THEN ListState(ml, bubbles)
                                ELSE AddBatch(ListState(ml, bubbles), batch,
                                              Val(hs.current_chat))
                      IN /\ ml' = st.ml
                         /\ bubbles' = st.bubbles
                         /\ Len(st.ml.messages) <= MaxList
                         /\ obs' = BatchDone(st.confirmed, st.added)
                 /\ client' = [client EXCEPT !.pc = "while"]
              \/ /\ client.has_ws
                 /\ client' = [client EXCEPT !.pc = "while"]
                 /\ obs' = ObsNone
                 /\ UNCHANGED <<ml, bubbles>>
              \/ /\ client' = [client EXCEPT !.has_ws = FALSE,
                                             !.connected = FALSE,
                                             !.pc = "while"]
                 /\ obs' = Notified("warning")
                 /\ UNCHANGED <<ml, bubbles>>
    /\ UNCHANGED <<store, poll, ws, hs, inflight, snd, compose>>

\* IMessageApp.on_unmount: stop(), then disconnect().
Unmount ==
    /\ ~client.stop_called
    /\ client' = [client EXCEPT !.running = FALSE, !.has_ws = FALSE,
                                !.stop_called = TRUE]
    /\ obs' = ObsNone
    /\ UNCHANGED <<store, poll, ws, hs, ml, bubbles, inflight, snd, compose>>

(* The send routes: POST /send and POST /send-with-attachment *)

RATE_LIMIT_MESSAGES == 2    \* 10 in the code
RATE_LIMIT_WINDOW == 2      \* 60 in the code
MaxReqs == 3                \* requests in flight at once
MaxClock == 3               \* the seconds the clock runs through
MaxSends == 3               \* no request arrives after this many sends
MaxErrLen == 2              \* phrases in one error text

\* A message text is a sequence of characters; str.strip() removes the
\* whitespace at both ends.
Whitespace == {" ", "\n"}
RawTexts ==
    {<<>>, <<" ">>, <<"\n">>, <<" ", "\n">>, <<"\n", " ", " ">>,
     <<"a">>, <<" ", "a">>, <<"a", "\n">>, <<" ", "a", " ">>, <<"a", " ", "a">>}

RECURSIVE lstrip(_)
lstrip(v) ==
    IF v # <<>> /\ Head(v) \in Whitespace THEN lstrip(Tail(v)) ELSE v

strip(v) == Reverse(lstrip(Reverse(lstrip(v))))

\* A bug to detect: the message is checked without strip().
validate_message_nostrip(v) == v # <<>>

\* SendRequest.validate_message: whether the validator accepts v.
validate_message(v) == strip(v) # <<>>

\* An error text of the sender is a sequence of phrases; `phrase in text` is
\* the membership of the phrase, and str.lower() lowers each phrase.
NotFoundPhrases ==
    {"can't get buddy", "can't get participant", "not found",
     "invalid phone", "invalid email"}

UnavailablePhrases ==
    {"can't get service", "can't get account", "no account",
     "not signed in", "connection invalid"}

MixedCasePhrases == {"Can't get buddy", "Not Signed In", "TIMEOUT"}

Phrases ==
    NotFoundPhrases \cup UnavailablePhrases \cup MixedCasePhrases
        \cup {"timeout", "execution error"}

ErrorTexts == UNION { [1..n -> Phrases] : n \in 0..MaxErrLen }

lower(error) ==
    [k \in DOMAIN error |->
        CASE error[k] = "Can't get buddy" -> "can't get buddy"
          [] error[k] = "Not Signed In" -> "not signed in"
          [] error[k] = "TIMEOUT" -> "timeout"
          [] OTHER -> error[k]]

\* any(phrase in error_lower for phrase in phrases)
AnyIn(phrases, error_lower) == \E phrase \in phrases : phrase \in Range(error_lower)

Classified(status, error_type, message) ==
    [status |-> status, error_type |-> error_type, message |-> message]

\* A bug to detect: the service phrases are looked for before the recipient
\* phrases.
classify_send_error_swapped(error) ==
    IF IsNone(error)
    THEN Classified(500, "unknown", <<"Unknown error occurred">>)
    ELSE LET error_lower == lower(Val(error))
         IN IF AnyIn(UnavailablePhrases, error_lower)
            THEN Classified(503, "service_unavailable",
                            <<"iMessage service unavailable">>)
            ELSE IF AnyIn(NotFoundPhrases, error_lower)
            THEN Classified(404, "recipient_not_found", <<"Recipient not found">>)
            ELSE IF "timeout" \in Range(error_lower)
            THEN Classified(504, "timeout", <<"Request timed out">>)
            ELSE Classified(500, "unknown", Val(error))

\* _classify_send_error
classify_send_error(error) ==
    IF IsNone(error)
    THEN Classified(500, "unknown", <<"Unknown error occurred">>)
    ELSE LET error_lower == lower(Val(error))
         IN IF AnyIn(NotFoundPhrases, error_lower)
            THEN Classified(404, "recipient_not_found", <<"Recipient not found">>)
            ELSE IF AnyIn(UnavailablePhrases, error_lower)
            THEN Classified(503, "service_unavailable",
                            <<"iMessage service unavailable">>)
            ELSE IF "timeout" \in Range(error_lower)
            THEN Classified(504, "timeout", <<"Request timed out">>)
            ELSE Classified(500, "unknown", Val(error))

\* The while loop of _check_rate_limit: popleft while the head is too old.
RECURSIVE RemoveOld(_, _)
RemoveOld(timestamps, cutoff) ==
    IF timestamps # <<>> /\ Head(timestamps) < cutoff
    THEN RemoveOld(Tail(timestamps), cutoff)
    ELSE timestamps

\* _check_rate_limit: the deque it leaves and whether it raises 429.
check_rate_limit(timestamps, now) ==
    LET kept == RemoveOld(timestamps, now - RATE_LIMIT_WINDOW)
    IN [timestamps |-> kept, limited |-> Len(kept) >= RATE_LIMIT_MESSAGES]

\* A request slot: free, or inside a handler at one of its waits.
\*   "accepted" /send: validated, its thread not yet in _check_rate_limit
\*   "reading"  /send-with-attachment: at `await file.read()`
\*   "sending"  the sender (osascript) is running
ReqIdle == [pc |-> "idle", route |-> "send"]

\* The module's deque, the clock time.time() reads, the requests in flight
\* and the times at which the sender delivered a message.
SendRouteInit ==
    [timestamps |-> <<>>, now |-> 0,
     reqs |-> [i \in 1..MaxReqs |-> ReqIdle], sent |-> <<>>]

\* The answer to request i: the status, and for a classified failure the
\* error the sender gave and its class.
Response(i, status, error, detail) ==
    [kind |-> "http", req |-> i, status |-> status, error |-> error,
     detail |-> detail]

NoDetail == Classified(0, "", <<>>)

\* The 422 of a SendRequest that failed validation: loc names the fields
\* whose validator raised.
ValidationError(i, loc) ==
    [kind |-> "http", req |-> i, status |-> 422, error |-> None,
     detail |-> NoDetail, loc |-> loc]

\* A request arrives. /send: the SendRequest validators run before the
\* handler (422). /send-with-attachment: the handler runs to its first await:
\* the recipient check (400), _check_rate_limit (429), the filename check
\* (400).
Arrive(i, route, recipient_ok, message, filename_ok) ==
    /\ snd.reqs[i].pc = "idle"
    /\ Len(snd.sent) < MaxSends
    /\ IF route = "send"
       THEN IF ~recipient_ok \/ ~validate_message(message)
            THEN /\ obs' = ValidationError(i,
                              (IF recipient_ok THEN {} ELSE {"recipient"})
                                \cup (IF validate_message(message)
                                      THEN {} ELSE {"message"}))
                 /\ UNCHANGED snd
            ELSE /\ snd' = [snd EXCEPT !.reqs[i] = [pc |-> "accepted", route |-> route]]
                 /\ obs' = ObsNone
       ELSE IF ~recipient_ok
            THEN /\ obs' = Response(i, 400, None, NoDetail)
                 /\ UNCHANGED snd
            ELSE LET c == check_rate_limit(snd.timestamps, snd.now)
                 IN IF c.limited
                    THEN /\ snd' = [snd EXCEPT !.timestamps = c.timestamps]
                         /\ obs' = Response(i, 429, None, NoDetail)
                    ELSE IF ~filename_ok
                    THEN /\ snd' = [snd EXCEPT !.timestamps = c.timestamps]
                         /\ obs' = Response(i, 400, None, NoDetail)
                    ELSE /\ snd' = [snd EXCEPT
                                      !.timestamps = c.timestamps,
                                      !.reqs[i] = [pc |-> "reading", route |-> route]]
                         /\ obs' = ObsNone
    /\ UNCHANGED <<store, poll, ws, hs, ml, bubbles, inflight, client, compose>>

\* send_message: _check_rate_limit in the request's thread, then the sender
\* is called.
CheckRateLimit(i) ==
    /\ snd.reqs[i].pc = "accepted"
    /\ LET c == check_rate_limit(snd.timestamps, snd.now)
       IN IF c.limited
          THEN /\ snd' = [snd EXCEPT !.timestamps = c.timestamps,
                                     !.reqs[i] = ReqIdle]
               /\ obs' = Response(i, 429, None, NoDetail)
          ELSE /\ snd' = [snd EXCEPT !.timestamps = c.timestamps,
                                     !.reqs[i].pc = "sending"]
               /\ obs' = ObsNone
    /\ UNCHANGED <<store, poll, ws, hs, ml, bubbles, inflight, client, compose>>

\* send_with_attachment after `await file.read()`: the size check (413), then
\* the file is written and the sender is called.
FileRead(i, too_large) ==
    /\ snd.reqs[i].pc = "reading"
    /\ IF too_large
       THEN /\ snd' = [snd EXCEPT !.reqs[i] = ReqIdle]
            /\ obs' = Response(i, 413, None, NoDetail)
       ELSE /\ snd' = [snd EXCEPT !.reqs[i].pc = "sending"]
            /\ obs' = ObsNone
    /\ UNCHANGED <<store, poll, ws, hs, ml, bubbles, inflight, client, compose>>

\* The sender returned success: the timestamp is appended and 200 answered.
SenderOk(i) ==
    /\ snd.reqs[i].pc = "sending"
    /\ snd' = [snd EXCEPT !.timestamps = Append(@, snd.now),
                          !.sent = Append(@, snd.now),
                          !.reqs[i] = ReqIdle]
    /\ obs' = Response(i, 200, None, NoDetail)
    /\ UNCHANGED <<store, poll, ws, hs, ml, bubbles, inflight, client, compose>>

\* The sender returned a failure with this error (None or a text): the
\* handler raises the classified HTTPException.
SenderFailed(i, error) ==
    /\ snd.reqs[i].pc = "sending"
    /\ snd' = [snd EXCEPT !.reqs[i] = ReqIdle]
    /\ LET c == classify_send_error(error)
       IN obs' = Response(i, c.status, error, c)
    /\ UNCHANGED <<store, poll, ws, hs, ml, bubbles, inflight, client, compose>>

\* A second passes.
Tick ==
    /\ snd.now < MaxClock
    /\ snd' = [snd EXCEPT !.now = @ + 1]
    /\ obs' = ObsNone
    /\ UNCHANGED <<store, poll, ws, hs, ml, bubbles, inflight, client, compose>>

(* The message input of the terminal client *)

\* The str of a sequence of characters.
RECURSIVE Join(_)
Join(v) == IF v = <<>> THEN "" ELSE Head(v) \o Join(Tail(v))

\* What an Enter on a blank input did: nothing but this.
Ignored(raw) == [kind |-> "key", raw |-> raw]

\* Enter in MessageInput (_on_key, _submit): the stripped text, when it is
\* not empty, is posted as MessageSubmitted and HomeScreen handles it.
KeyEnter(raw) ==
    IF strip(raw) # <<>>
    THEN Submit(Join(strip(raw)))
    ELSE /\ obs' = Ignored(raw)
         /\ UNCHANGED <<store, poll, ws, hs, ml, bubbles, inflight, client, snd, compose>>

----------------------------------------------------------------------------
(* The compose screen of the terminal client *)

\* Values of the recipient input; none has outer whitespace, so the strip()
\* of action_send and of validate_recipient leaves them as they are.
ComposeRecipients == {"", "x", "+1 555 1234567", "a@b.c"}

\* Values of the message input.
ComposeTexts == {<<>>, <<" ">>, <<"a">>, <<"a", " ">>}

\* scheduled: _send_message workers created by run_worker that have not run
\* yet; requests: workers inside `await app.api.send_message(...)`.
ComposeScreenInit ==
    [open |-> FALSE, sending |-> FALSE, recipient |-> "", message |-> <<>>,
     error |-> "", scheduled |-> <<>>, requests |-> <<>>]

\* None when valid, else the error text. Formatting characters are removed
\* before PHONE_PATTERN is tried; EMAIL_PATTERN is tried on the value itself.
validate_recipient(value) ==
    IF value = "" THEN Some("Recipient is required")
    ELSE IF value \in {"+1 555 1234567", "a@b.c"} THEN None
    ELSE Some("Enter a valid phone number or email")

normalize_recipient(value) ==
    IF value = "+1 555 1234567" THEN "+15551234567" ELSE value

\* IMessageApp.action_compose: push a new ComposeScreen.
ActionCompose ==
    /\ ~compose.open
    /\ compose' = [ComposeScreenInit EXCEPT !.open = TRUE]
    /\ obs' = ObsNone
    /\ UNCHANGED <<store, poll, ws, hs, ml, bubbles, inflight, client, snd>>

\* The user edits the inputs, which _set_sending(True) disables.
ComposeType(recipient, message) ==
    /\ compose.open
    /\ ~compose.sending
    /\ compose' = [compose EXCEPT !.recipient = recipient, !.message = message]
    /\ obs' = ObsNone
    /\ UNCHANGED <<store, poll, ws, hs, ml, bubbles, inflight, client, snd>>

\* action_send, reached from the Send button, from Enter in the message input
\* or from the ctrl+enter binding. The button and the input are disabled while
\* _set_sending(True) is in force; the binding is not.
action_send(kind) ==
    /\ compose.open
    /\ kind \in {"button", "enter"} => ~compose.sending
    /\ IF compose.sending
       THEN UNCHANGED compose
       ELSE LET message == strip(compose.message)
                error == validate_recipient(compose.recipient)
            IN IF ~IsNone(error)
               THEN compose' = [compose EXCEPT !.error = Val(error)]
               ELSE IF message = <<>>
               THEN compose' = [compose EXCEPT !.error = "Message cannot be empty"]
               ELSE /\ Len(compose.scheduled) + Len(compose.requests) < MaxComposeSends
                    /\ compose' = [compose EXCEPT
                                     !.error = "",
                                     !.scheduled = Append(@,
                                         [recipient |-> compose.recipient,
                                          message |-> Join(message)])]
    /\ obs' = ObsNone
    /\ UNCHANGED <<store, poll, ws, hs, ml, bubbles, inflight, client, snd>>

\* A scheduled worker runs _send_message up to its await: _set_sending(True),
\* then the request.
SendMessageStart ==
    /\ compose.open
    /\ compose.scheduled # <<>>
    /\ LET w == Head(compose.scheduled)
       IN compose' = [compose EXCEPT
                        !.sending = TRUE,
                        !.scheduled = Tail(@),
                        !.requests = Append(@,
                            [recipient |-> normalize_recipient(w.recipient),
                             message |-> w.message])]
    /\ obs' = ObsNone
    /\ UNCHANGED <<store, poll, ws, hs, ml, bubbles, inflight, client, snd>>

\* app.api.send_message answers request i: True (notify, pop the screen, with
\* which its other workers are cancelled), False, or an exception.
SendMessageDone(i, outcome) ==
    /\ compose.open
    /\ i \in 1..Len(compose.requests)
    /\ compose' = IF outcome = "sent" THEN ComposeScreenInit
                  ELSE [compose EXCEPT
                          !.error = IF outcome = "failed"
                                    THEN "Failed to send message" ELSE "Error",
                          !.sending = FALSE,
                          !.requests = RemoveAt(@, i)]
    /\ obs' = IF outcome = "sent" THEN Notified("information") ELSE ObsNone
    /\ UNCHANGED <<store, poll, ws, hs, ml, bubbles, inflight, client, snd>>

\* action_cancel: escape or the Cancel button.
action_cancel ==
    /\ compose.open
    /\ compose' = IF compose.sending THEN compose ELSE ComposeScreenInit
    /\ obs' = ObsNone
    /\ UNCHANGED <<store, poll, ws, hs, ml, bubbles, inflight, client, snd>>

----------------------------------------------------------------------------
(* Initial state: empty store, nothing connected, the widgets as constructed *)

HomeScreenInit == [current_chat |-> None, handler |-> "idle", text |-> ""]

MessageListInit ==
    [current_chat |-> None, messages |-> <<>>, pending_texts |-> {},
     seen_rowids |-> {}, oldest_rowid |-> None, has_more |-> TRUE,
     loading_more |-> FALSE]

Init ==
    /\ store = <<>>
    /\ poll = PollIdle
    /\ ws = WsClosed
    /\ hs = HomeScreenInit
    /\ ml = MessageListInit
    /\ bubbles = <<>>
    /\ inflight = <<>>
    /\ obs = ObsNone
    /\ client = WebSocketClientInit
    /\ snd = SendRouteInit
    /\ compose = ComposeScreenInit

----------------------------------------------------------------------------
(* The poll route against a growing store *)

\* A message arrives from a correspondent (the routes read neither its text
\* nor its direction).
InsertReceived ==
    /\ \E date \in Dates, chat_id \in Chats :
         StoreInsert(date, chat_id, FALSE, "a")
    /\ UNCHANGED <<poll, ws, hs, ml, bubbles, inflight, obs, client, snd, compose>>

Scopes == {None} \cup {Some(c) : c \in Chats}

PollNext ==
    \/ InsertReceived
    \/ \E w \in 0..MaxRows, chat_id \in Scopes, limit \in 0..MaxLimit :
         PollStart(w, chat_id, limit)
    \/ PollCall

SpecPoll == Init /\ [][PollNext]_vars

\* The same route against a store whose rows are written in time order: the
\* date of a row is later than the date of every row before it.
InsertInOrder ==
    /\ \E chat_id \in Chats :
         StoreInsert(Len(store) + 1, chat_id, FALSE, "a")
    /\ UNCHANGED <<poll, ws, hs, ml, bubbles, inflight, obs, client, snd, compose>>

PollOrderedNext ==
    \/ InsertInOrder
    \/ \E w \in 0..MaxRows, chat_id \in Scopes, limit \in 0..MaxLimit :
         PollStart(w, chat_id, limit)
    \/ PollCall

SpecPollOrdered == Init /\ [][PollOrderedNext]_vars

\* The ids of the rows of scope chat_id with id > w among the first n rows.
Available(n, chat_id, w) ==
    {r.rowid : r \in Where(StoreAt(n), chat_id, Some(w))}

\* C2: against a fixed store, a client that starts at after_rowid = w and
\* passes last_rowid back until has_more is false has received every row of
\* the scope with id > w exactly once, in ascending id order.
C2_PollDeliversAllOnce ==
    (poll.caught_up /\ poll.start_len = Len(store)) =>
        poll.received = Ascending(Available(Len(store), poll.chat_id, poll.start))

\* C3: the last_rowid of a response is >= the after_rowid passed in, and every
\* row of the response has a rowid > that after_rowid.
C3_PollMonotonic ==
    poll.calls > 0 =>
        /\ poll.resp.last_rowid >= poll.in_after
        /\ \A i \in 1..Len(poll.resp.messages) :
              poll.resp.messages[i].rowid > poll.in_after

C3_Witness ==
    /\ poll.calls > 1
    /\ poll.resp.messages # <<>>
    /\ poll.in_after > 0

\* C8: with more than limit rows after the watermark the response holds
\* exactly limit rows and has_more; with at most limit rows it holds them all
\* and has_more is false.
C8_PollLimit ==
    poll.calls > 0 =>
        LET avail == Available(poll.in_len, poll.chat_id, poll.in_after)
            got == poll.resp.messages
        IN IF Cardinality(avail) > poll.limit
           THEN Len(got) = poll.limit /\ poll.resp.has_more
           ELSE /\ Len(got) = Cardinality(avail)
                /\ Range(Ids(got)) = avail
                /\ ~poll.resp.has_more

C8_Witness ==
    /\ poll.calls > 0
    /\ poll.limit > 0
    /\ Cardinality(Available(poll.in_len, poll.chat_id, poll.in_after)) > poll.limit
    /\ poll.resp.has_more

\* C9: on an unchanged store, a poll at the last_rowid of a response whose
\* has_more was false returns no message, has_more false and the same
\* last_rowid.
C9_PollFixpoint ==
    (poll.calls > 1 /\ ~poll.prev_more /\ poll.prev_len = poll.in_len) =>
        /\ poll.resp.messages = <<>>
        /\ ~poll.resp.has_more
        /\ poll.resp.last_rowid = poll.in_after

----------------------------------------------------------------------------
(* The /ws loop against a growing store *)

WsNext ==
    \/ InsertReceived
    \/ \E chat_id \in Scopes : WsConnect(chat_id)
    \/ WsConnectError
    \/ WsPoll
    \/ WsPollError
    \/ WsTimeout
    \/ \E type \in {"set_after_rowid", "other"},
          rowid \in {None} \cup {Some(n) : n \in 0..MaxRows} : WsReceive(type, rowid)
    \/ WsDisconnect

SpecWs == Init /\ [][WsNext]_vars

\* The rows a frame list pushes.
Pushed(frames) ==
    UNION { Range(frames[i].data) :
            i \in {j \in 1..Len(frames) : frames[j].type = "messages"} }

\* C10: unless the client has sent set_after_rowid, no row that was in the
\* scope when Init ran is pushed on the connection.
C10_NoBacklog ==
    (obs.kind = "ws" /\ ws.state # "closed" /\ ~ws.reset) =>
        \A r \in Pushed(obs.frames) : r.rowid > ws.init_len

\* The same loop against a store whose rows are written in time order.
WsOrderedNext ==
    \/ InsertInOrder
    \/ \E chat_id \in Scopes : WsConnect(chat_id)
    \/ WsConnectError
    \/ WsPoll
    \/ WsPollError
    \/ WsTimeout
    \/ \E type \in {"set_after_rowid", "other"},
          rowid \in {None} \cup {Some(n) : n \in 0..MaxRows} : WsReceive(type, rowid)
    \/ WsDisconnect

SpecWsOrdered == Init /\ [][WsOrderedNext]_vars

\* C11: on a connection without set_after_rowid, every row of the scope
\* appended after Init is pushed, however many rows arrive between two poll
\* cycles: a poll cycle whose fetch succeeds pushes every such row that its
\* new watermark passes (a row the watermark has passed is never fetched
\* again, so a row passed unpushed is never pushed).
C11_EveryRowPushed ==
    [][(WsPoll /\ ~ws.reset) =>
          \A r \in Where(store, ws.chat_id, Some(ws.last_rowid)) :
              (r.rowid > ws.init_len /\ r.rowid <= ws'.last_rowid)
                  => r \in Pushed(obs'.frames)]_vars

\* C12: a poll cycle whose fetch raises sends one error frame, leaves the
\* connection open and the watermark unchanged, and is followed by the next
\* poll cycle; the first cycle whose fetch succeeds again pushes the rows
\* appended since the fetches began to fail (none of them is passed by the
\* new watermark unpushed).
C12_PollErrorRecovers ==
    [][ /\ WsPollError =>
             /\ obs'.frames = <<[type |-> "error"]>>
             /\ ws'.state = "polling"
             /\ ws'.last_rowid = ws.last_rowid
        /\ (WsPoll /\ ~IsNone(ws.fail_len)) =>
             \A r \in Where(store, ws.chat_id, Some(ws.last_rowid)) :
                 (r.rowid > Val(ws.fail_len) /\ r.rowid <= ws'.last_rowid)
                     => r \in Pushed(obs'.frames)
      ]_vars

\* The in-scope rows of the store with an id above n.
InScopeAbove(n) == Where(store, ws.chat_id, Some(n))

\* C13: after {"type": "set_after_rowid", "rowid": N} the watermark is N, and
\* the poll cycle that follows pushes the in-scope rows with id > N and no
\* other row: all of them, or as many as the batch limit when there are more;
\* after a set_after_rowid command without rowid the watermark is what it
\* was.
C13_SetAfterRowid ==
    [][ /\ (obs'.kind = "cmd" /\ obs'.type = "set_after_rowid") =>
             ws'.last_rowid = IF IsNone(obs'.rowid) THEN obs'.used
                              ELSE Val(obs'.rowid)
        /\ (WsPoll /\ obs.kind = "cmd" /\ obs.type = "set_after_rowid"
                   /\ ~IsNone(obs.rowid)) =>
             LET avail == InScopeAbove(Val(obs.rowid))
                 pushed == Pushed(obs'.frames)
             IN /\ pushed \subseteq avail
                /\ Cardinality(pushed) = Min2(WsBatchLimit, Cardinality(avail))
      ]_vars

C13_Witness ==
    /\ obs.kind = "cmd" /\ obs.type = "set_after_rowid"
    /\ ~IsNone(obs.rowid)
    /\ Val(obs.rowid) < obs.used
    /\ ws.state = "polling"
    /\ Cardinality(InScopeAbove(Val(obs.rowid))) > WsBatchLimit

\* The step is the receipt of a set_after_rowid command that carries a rowid.
SetsWatermark ==
    /\ ws.state = "waiting"
    /\ obs'.kind = "cmd" /\ obs'.type = "set_after_rowid" /\ ~IsNone(obs'.rowid)

\* C14 as claimed: while the connection lasts, no step (poll cycle, fetch
\* error, client command) lowers the watermark.
C14_WatermarkNeverDecreases ==
    [][(ws.state # "closed" /\ ws'.state # "closed")
          => ws'.last_rowid >= ws.last_rowid]_vars

\* C14 as amended: while the connection lasts, no poll cycle, fetch error,
\* timeout or other client message lowers the watermark; only a
\* set_after_rowid command with a rowid may, and it sets the watermark to that
\* rowid.
C14_WatermarkMonotonicButReset ==
    [][(ws.state # "closed" /\ ws'.state # "closed") =>
          IF SetsWatermark THEN ws'.last_rowid = Val(obs'.rowid)
          ELSE ws'.last_rowid >= ws.last_rowid]_vars

C14_Witness ==
    /\ obs.kind = "ws"
    /\ Pushed(obs.frames) # {}
    /\ ws.last_rowid > obs.used
    /\ ws.reset

----------------------------------------------------------------------------
(* The terminal client against a growing store *)

TuiNext ==
    \/ \E chat_id \in Chats : SelectChat(chat_id)
    \/ LoadChatOk
    \/ LoadChatError
    \/ LoadMoreStart
    \/ \E i \in 1..MaxInflight : LoadMoreOk(i)
    \/ \E i \in 1..MaxInflight : LoadMoreError(i)
    \/ \E text \in Texts : Submit(text)
    \/ SendOk
    \/ SendFailed
    \/ \E batch \in Batches : OnNewMessages(batch)
    \/ InsertRow

SpecTui == Init /\ [][TuiNext]_vars

----------------------------------------------------------------------------
(* Browsing: chat switches, older pages and pushed batches, every fetch
   answered *)

BrowseNext ==
    \/ InsertRow
    \/ \E chat_id \in Chats : SelectChat(chat_id)
    \/ LoadChatOk
    \/ LoadMoreStart
    \/ \E i \in 1..MaxInflight : LoadMoreOk(i)
    \/ \E batch \in Batches : OnNewMessages(batch)

SpecBrowse == Init /\ [][BrowseNext]_vars

NoDuplicates(s) == \A i, j \in 1..Len(s) : s[i] = s[j] => i = j

\* The row ids of the mounted bubbles, top to bottom (optimistic ones left out).
RenderedIds(bs) ==
    LET F[i \in 0..Len(bs)] ==
            IF i = 0 THEN <<>>
            ELSE IF bs[i].message.rowid = -1 THEN F[i - 1]
            ELSE Append(F[i - 1], bs[i].message.rowid)
    IN F[Len(bs)]

\* C1: whatever the interleaving of chat switches, older pages (stale ones
\* included) and pushed batches (replays included), every row id occurs at
\* most once in _messages and in the mounted bubbles.
C1_NoDuplicateRows ==
    /\ NoDuplicates(Ids(ml.messages))
    /\ NoDuplicates(RenderedIds(bubbles))

\* The pagination state of the list.
Pagination(m) == <<m.oldest_rowid, m.has_more, m.loading_more>>

\* C15: the answer to a fetch issued for a chat that is no longer open is
\* discarded. Once HomeScreen has finished switching (the page of the new
\* chat is loaded), every entry of _messages belongs to the open chat, and the
\* answer to a load-older request issued for another chat than the open one
\* changes neither _messages nor the pagination state.
C15_StaleResponseDiscarded ==
    [][ /\ (hs'.handler = "idle" /\ ~IsNone(ml'.current_chat)) =>
             \A k \in 1..Len(ml'.messages) :
                 ml'.messages[k].chat_id = Val(ml'.current_chat)
        /\ \A i \in 1..Len(inflight) :
             (LoadMoreOk(i) /\ hs.handler = "idle"
                            /\ Some(inflight[i].chat_id) # ml.current_chat) =>
                 /\ ml'.messages = ml.messages
                 /\ Pagination(ml') = Pagination(ml)
      ]_vars

----------------------------------------------------------------------------
(* Paging one chat back to its first row *)

\* The user opens one chat and stays in it.
OpenChat(chat_id) ==
    /\ IsNone(hs.current_chat)
    /\ SelectChat(chat_id)

PagingNext ==
    \/ InsertRow
    \/ \E chat_id \in Chats : OpenChat(chat_id)
    \/ LoadChatOk
    \/ LoadChatError
    \/ LoadMoreStart
    \/ \E i \in 1..MaxInflight : LoadMoreOk(i)
    \/ \E i \in 1..MaxInflight : LoadMoreError(i)
    \/ \E batch \in Batches : OnNewMessages(batch)

\* The user keeps asking for the older page while one is left, and a request
\* that is repeated often enough is answered.
SpecPaging ==
    /\ Init /\ [][PagingNext]_vars
    /\ WF_vars(LoadMoreStart)
    /\ SF_vars(\E i \in 1..MaxInflight : LoadMoreOk(i))

OptimisticOf(bs, text) == {i \in Optimistic(bs) : bs[i].message.text = text}

\* The bubbles of bs that show the row rowid.
BubblesOf(bs, rowid) == {i \in 1..Len(bs) : bs[i].message.rowid = rowid}

\* Row r is an outgoing row of the open chat with text text and an id the
\* list has not seen.
Confirms(r, text) ==
    /\ hs.current_chat = Some(r.chat_id)
    /\ r.is_from_me /\ r.text = text
    /\ r.rowid \notin ml.seen_rowids

\* C4: text T was submitted in the open chat (its optimistic bubble is mounted,
\* pending or marked failed, and T is in the pending set); when a pushed
\* outgoing row with text T and an unseen id is processed, the view holds one
\* entry for T, the confirmed row in place of the optimistic bubble, and T has
\* left the pending set.
C4_PendingConverges ==
    [][\A text \in Texts : \A r \in Range(store) :
          ( /\ OnNewMessages(<<r>>)
            /\ Confirms(r, text)
            /\ text \in ml.pending_texts
            /\ Cardinality(OptimisticOf(bubbles, text)) = 1 )
          => /\ OptimisticOf(bubbles', text) = {}
             /\ Cardinality(BubblesOf(bubbles', r.rowid)) = 1
             /\ Len(bubbles') = Len(bubbles)
             /\ text \notin ml'.pending_texts]_vars

\* A failed optimistic bubble of bs.
FailedOptimistic(bs) ==
    {i \in Optimistic(bs) : bs[i].failed /\ ~bs[i].pending}

\* C5: when the send request of a submitted text fails, the optimistic bubble
\* of that text is mounted and marked failed and the text is in the pending
\* set; a pushed batch with no outgoing row of that text and an unseen id
\* leaves every failed optimistic bubble mounted and unaltered.
C5_FailedStays ==
    [][ /\ SendFailed =>
             /\ \E i \in FailedOptimistic(bubbles') :
                    bubbles'[i].message.text = hs.text
             /\ hs.text \in ml'.pending_texts
        /\ \A batch \in Batches :
             OnNewMessages(batch) =>
                \A i \in FailedOptimistic(bubbles) :
                    (\A k \in 1..Len(batch) :
                         ~Confirms(batch[k], bubbles[i].message.text))
                    => /\ i <= Len(bubbles') /\ bubbles'[i] = bubbles[i]
                       /\ bubbles[i].message.text \in ml.pending_texts
                            => bubbles[i].message.text \in ml'.pending_texts
      ]_vars

----------------------------------------------------------------------------
(* Sending in one open chat: submits, send results, pushed batches and older
   pages *)

SendNext ==
    \/ \E chat_id \in Chats : OpenChat(chat_id)
    \/ LoadChatOk
    \/ LoadChatError
    \/ LoadMoreStart
    \/ \E i \in 1..MaxInflight : LoadMoreOk(i)
    \/ \E i \in 1..MaxInflight : LoadMoreError(i)
    \/ \E text \in Texts : Submit(text)
    \/ SendOk
    \/ SendFailed
    \/ \E batch \in Batches : OnNewMessages(batch)
    \/ InsertRow

SpecSend == Init /\ [][SendNext]_vars

\* The position of the bubble of row rowid among bs (0: none).
PositionOf(bs, rowid) ==
    IF BubblesOf(bs, rowid) = {} THEN 0 ELSE SetMin(BubblesOf(bs, rowid))

----------------------------------------------------------------------------
(* The listener under the app: a chat open, rows arriving, the app mounted
   and unmounted. Every step the listener can take is taken, and every page
   load is answered. *)

ListenerNext ==
    \/ \E chat_id \in Chats : SelectChat(chat_id)
    \/ LoadChatOk
    \/ StartWebsocket
    \/ Listen
    \/ Unmount
    \/ InsertRow

SpecListener ==
    Init /\ [][ListenerNext]_vars /\ WF_vars(Listen) /\ WF_vars(LoadChatOk)

\* Row n belongs to the open, loaded chat, was appended after every row the
\* list has seen, is not rendered, and the push channel is down.
Missed(n) ==
    /\ n \in 1..Len(store)
    /\ hs.handler = "idle"
    /\ hs.current_chat = Some(store[n].chat_id)
    /\ \A r \in ml.seen_rowids : r < n
    /\ n \notin Range(RenderedIds(bubbles))
    /\ ~client.has_ws

\* C16: every row appended to the open chat while the push channel is down
\* is eventually rendered (through the reload that follows the reconnection)
\* unless the user selects a chat again or the app is closed.
C16_GapClosed ==
    \A n \in 1..MaxTuiRows :
        Missed(n) ~> \/ n \in Range(RenderedIds(bubbles))
                     \/ hs.handler # "idle"
                     \/ client.stop_called

\* C17: a listener the app started stays in its loop, connecting and
\* reconnecting, until stop() is called: it has not returned before.
C17_ListenerRunsUntilStopped ==
    client.pc = "returned" => client.stop_called

----------------------------------------------------------------------------
(* One well-formed request at a time through the send routes, the sender
   failing with any error text *)

SenderErrors == {None} \cup { Some(e) : e \in ErrorTexts }

ClassifyNext ==
    \/ \E route \in {"send", "attach"} : Arrive(1, route, TRUE, <<"a">>, TRUE)
    \/ CheckRateLimit(1)
    \/ \E too_large \in BOOLEAN : FileRead(1, too_large)
    \/ SenderOk(1)
    \/ \E error \in SenderErrors : SenderFailed(1, error)

SpecClassify == Init /\ [][ClassifyNext]_vars

\* The answer to a request whose sender failed.
FailedSend == obs.kind = "http" /\ obs.detail # NoDetail

Mentions(error, phrases) ==
    ~IsNone(error) /\ \E k \in 1..Len(Val(error)) :
                         \E phrase \in phrases : lower(Val(error))[k] = phrase

\* C18: a failed send is answered with the status of exactly one class, in
\* this priority: no error text, 500 unknown; a recipient-not-found phrase,
\* 404; else a service-unavailable phrase, 503; else a timeout phrase, 504;
\* otherwise 500 unknown with the original error text as the message.
C18_ClassifiedByPriority ==
    FailedSend =>
        LET e == obs.error
            c == obs.detail
        IN /\ obs.status = c.status
           /\ <<c.status, c.error_type>> \in
                 {<<500, "unknown">>, <<404, "recipient_not_found">>,
                  <<503, "service_unavailable">>, <<504, "timeout">>}
           /\ IsNone(e) => c.status = 500
           /\ Mentions(e, NotFoundPhrases) => c.status = 404
           /\ (Mentions(e, UnavailablePhrases) /\ ~Mentions(e, NotFoundPhrases))
                 => c.status = 503
           /\ (Mentions(e, {"timeout"}) /\ ~Mentions(e, UnavailablePhrases)
                                        /\ ~Mentions(e, NotFoundPhrases))
                 => c.status = 504
           /\ (~IsNone(e) /\ ~Mentions(e, NotFoundPhrases \cup UnavailablePhrases
                                              \cup {"timeout"}))
                 => c.status = 500 /\ c.message = Val(e)

\* A failure whose text holds a phrase of each class, in mixed case, answered
\* 404.
C18_Witness ==
    /\ FailedSend
    /\ obs.status = 404
    /\ Mentions(obs.error, UnavailablePhrases)
    /\ Val(obs.error)[1] = "Not Signed In"

----------------------------------------------------------------------------
(* Requests handled concurrently by the send routes: /send in the threads of
   the server's pool, /send-with-attachment on its event loop *)

RateNext ==
    \/ \E i \in 1..MaxReqs, route \in {"send", "attach"},
          recipient_ok \in BOOLEAN, message \in RawTexts,
          filename_ok \in BOOLEAN :
         Arrive(i, route, recipient_ok, message, filename_ok)
    \/ \E i \in 1..MaxReqs : CheckRateLimit(i)
    \/ \E i \in 1..MaxReqs, too_large \in BOOLEAN : FileRead(i, too_large)
    \/ \E i \in 1..MaxReqs : SenderOk(i)
    \/ \E i \in 1..MaxReqs, error \in {None, Some(<<"timeout">>)} :
         SenderFailed(i, error)
    \/ Tick

SpecRate == Init /\ [][RateNext]_vars

\* The successful sends inside the window of RATE_LIMIT_WINDOW seconds that
\* starts at second t.
SentInWindow(t) ==
    {k \in 1..Len(snd.sent) :
        t <= snd.sent[k] /\ snd.sent[k] < t + RATE_LIMIT_WINDOW}

WindowsWithinLimit ==
    \A t \in 0..MaxClock : Cardinality(SentInWindow(t)) <= RATE_LIMIT_MESSAGES

\* The successful sends recorded in the window that ends now.
Recorded ==
    Cardinality({k \in 1..Len(snd.timestamps) :
                    snd.timestamps[k] >= snd.now - RATE_LIMIT_WINDOW})

\* Request i is at its rate-limit check in this step.
AtCheck(i) ==
    \/ CheckRateLimit(i)
    \/ \E message \in RawTexts, filename_ok \in BOOLEAN :
         Arrive(i, "attach", TRUE, message, filename_ok)

\* C19: in every window at most RATE_LIMIT_MESSAGES sends succeed through
\* both routes together, whatever the interleaving of the requests; and a
\* request checked while that many sends are recorded in the window is
\* answered 429 without the sender being called.
C19_RateLimited ==
    [][ /\ WindowsWithinLimit'
        /\ \A i \in 1..MaxReqs :
             (AtCheck(i) /\ Recorded >= RATE_LIMIT_MESSAGES) =>
                 /\ obs' = Response(i, 429, None, NoDetail)
                 /\ snd'.reqs[i].pc = "idle"
                 /\ snd'.sent = snd.sent ]_vars

----------------------------------------------------------------------------
(* Texts typed into the message input and texts posted to /send, blank ones
   among them *)

BlankNext ==
    \/ \E chat_id \in Chats : SelectChat(chat_id)
    \/ LoadChatOk
    \/ \E raw \in RawTexts : KeyEnter(raw)
    \/ SendOk
    \/ SendFailed
    \/ \E recipient_ok \in BOOLEAN, message \in RawTexts :
         Arrive(1, "send", recipient_ok, message, TRUE)
    \/ CheckRateLimit(1)
    \/ SenderOk(1)
    \/ SenderFailed(1, None)

SpecBlank == Init /\ [][BlankNext]_vars

\* Empty or made of whitespace only.
IsBlank(v) == \A k \in 1..Len(v) : v[k] \in Whitespace

BlankStrings == { Join(v) : v \in {w \in RawTexts : IsBlank(w)} }

\* C20: a blank text makes no pending entry and no send. Enter on a blank
\* input changes nothing in the screen or the list; no pending text is
\* blank; and /send answers a blank message with 422, the request never
\* reaching the rate-limit check or the sender, the timestamps as they were.
C20_BlankRejected ==
    [][ /\ \A raw \in RawTexts :
             (IsBlank(raw) /\ KeyEnter(raw)) => UNCHANGED <<hs, ml, bubbles, snd>>
        /\ ml'.pending_texts \cap BlankStrings = {}
        /\ \A message \in RawTexts, recipient_ok \in BOOLEAN :
             (IsBlank(message) /\ Arrive(1, "send", recipient_ok, message, TRUE)) =>
                 /\ obs'.kind = "http" /\ obs'.status = 422
                 /\ "message" \in obs'.loc
                 /\ snd' = snd ]_vars

\* Enter was pressed on an input of whitespace while a chat was open and
\* nothing was pending: a text would have been sent.
C20_Witness ==
    /\ obs.kind = "key"
    /\ obs.raw # <<>>
    /\ IsBlank(obs.raw)
    /\ hs.handler = "idle"
    /\ ~IsNone(hs.current_chat)
    /\ Optimistic(bubbles) = {}

----------------------------------------------------------------------------
(* A loop over APIClient.poll_messages against a store written in time
   order *)

ApiClientNext ==
    \/ InsertInOrder
    \/ \E w \in 0..MaxRows, chat_id \in Scopes, limit \in 1..MaxLimit :
         PollStart(w, chat_id, limit)
    \/ ApiClientPoll

SpecApiClient == Init /\ [][ApiClientNext]_vars

\* C21: the second element APIClient.poll_messages returns is the watermark
\* the server reported for that poll, so the value the loop stores is that
\* watermark and the loop receives no row twice.
C21_ClientWatermark ==
    poll.calls > 0 =>
        /\ poll.after_rowid = poll.resp.last_rowid
        /\ NoDuplicates(poll.received)

----------------------------------------------------------------------------
(* The list's state over chat switches whose page fetch may fail *)

\* The state of MessageList is empty.
EngineEmpty(m) ==
    /\ m.messages = <<>>
    /\ m.seen_rowids = {}
    /\ m.pending_texts = {}
    /\ IsNone(m.oldest_rowid)

\* C22: when the page fetch of a chat switch fails the list's state is empty
\* afterwards, whatever chat was open before, and a batch handled next is
\* merged into that state only: the list then holds rows of the batch alone.
C22_FailedSwitchLeavesEmpty ==
    [][ /\ LoadChatError => EngineEmpty(ml')
        /\ \A batch \in Batches :
             (OnNewMessages(batch) /\ EngineEmpty(ml)) =>
                 Range(Ids(ml'.messages)) \subseteq Range(Ids(batch)) ]_vars

----------------------------------------------------------------------------
(* The bookkeeping of the list in one open chat *)

\* C23: whenever the list is at rest (no handler of the screen is running),
\* _seen_rowids is the set of the row ids of the entries of _messages.
C23_SeenMirrorsMessages ==
    hs.handler = "idle" => ml.seen_rowids = Range(Ids(ml.messages))

\* C24: the re-render after an older page has arrived shows every entry that
\* was rendered before it (pending, failed and confirmed ones among them) and
\* adds nothing but the rows of the older page.
C24_BackfillKeepsEntries ==
    [][\A i \in 1..Len(inflight) :
          (LoadMoreOk(i) /\ Some(inflight[i].chat_id) = ml.current_chat) =>
              /\ Range(bubbles) \subseteq Range(bubbles')
              /\ \A k \in 1..Len(bubbles') :
                    \/ bubbles'[k] \in Range(bubbles)
                    \/ /\ bubbles'[k].message.rowid # -1
                       /\ bubbles'[k].message.rowid \notin ml.seen_rowids ]_vars

\* C25: at most one fetch of an older page is outstanding at any time.
C25_OneLoadInFlight == Len(inflight) <= 1

----------------------------------------------------------------------------
(* The frames of one /ws connection *)

MessagesFrames == {k \in 1..Len(obs.frames) : obs.frames[k].type = "messages"}

\* C26: every messages frame pushed is non-empty, lists its rows in strictly
\* ascending rowid order, carries as last_rowid the largest rowid of the
\* frame, holds only rows above the watermark the fetch used, and the
\* connection's watermark after the push is that last_rowid.
C26_FrameWellFormed ==
    obs.kind = "ws" =>
        \A k \in MessagesFrames :
            LET data == obs.frames[k].data
            IN /\ data # <<>>
               /\ \A i, j \in 1..Len(data) : i < j => data[i].rowid < data[j].rowid
               /\ obs.frames[k].last_rowid = SetMax(Range(Ids(data)))
               /\ \A i \in 1..Len(data) : data[i].rowid > obs.used
               /\ ws.last_rowid = obs.frames[k].last_rowid

\* A frame of several rows pushed above a watermark that had moved before.
C26_Witness ==
    /\ obs.kind = "ws"
    /\ obs.used > 0
    /\ \E k \in MessagesFrames : Len(obs.frames[k].data) > 1

----------------------------------------------------------------------------
(* Submitting again while an optimistic bubble is still pending *)

PendingNext ==
    \/ \E chat_id \in Chats : OpenChat(chat_id)
    \/ LoadChatOk
    \/ LoadChatError
    \/ \E text \in Texts : SubmitWithin(text, MaxResubmits)
    \/ SendOk
    \/ SendFailed
    \/ \E batch \in Batches : OnNewMessages(batch)
    \/ InsertRow

SpecPending == Init /\ [][PendingNext]_vars

PendingBubbles(text) ==
    {i \in 1..Len(bubbles) : bubbles[i].pending /\ bubbles[i].message.text = text}

\* C27: at most one rendered bubble is pending for a given text, and every
\* rendered pending bubble has its text in _pending_texts.
C27_OnePendingPerText ==
    \A text \in Texts :
        /\ Cardinality(PendingBubbles(text)) <= 1
        /\ PendingBubbles(text) # {} => text \in ml.pending_texts

----------------------------------------------------------------------------
(* Keepalive: a connection whose poll cycles are counted *)

KeepaliveNext ==
    \/ InsertReceived
    \/ \E chat_id \in Scopes : WsAccept(chat_id, Some(0))
    \/ WsPoll
    \/ WsPollError
    \/ WsTimeout
    \/ \E type \in {"set_after_rowid", "other"},
          rowid \in {None} \cup {Some(n) : n \in 0..MaxRows} : WsReceive(type, rowid)
    \/ WsDisconnect

SpecKeepalive == Init /\ [][KeepaliveNext]_vars

\* C28: on an open connection every run of PingCycles consecutive poll cycles
\* without a client message contains a ping frame, whether the polls return
\* rows or fail.
C28_PingEveryCycles ==
    (ws.state # "closed" /\ ~IsNone(ws.quiet)) => Val(ws.quiet) < PingCycles

----------------------------------------------------------------------------
(* WebSocketClient on its own: connect() awaited before listen() *)

\* The owner awaits connect() before starting listen(), which the class's
\* interface offers; IMessageApp itself never does.
ConnectFirst ==
    /\ client.pc = "init"
    /\ ~client.has_ws
    /\ ~client.stop_called
    /\ client' = connect(client)
    /\ obs' = ObsNone
    /\ UNCHANGED <<store, poll, ws, hs, ml, bubbles, inflight, snd, compose>>

ClientNext ==
    \/ \E chat_id \in Chats : SelectChat(chat_id)
    \/ LoadChatOk
    \/ ConnectFirst
    \/ StartWebsocket
    \/ Listen
    \/ Unmount
    \/ InsertRow

SpecClient == Init /\ [][ClientNext]_vars

----------------------------------------------------------------------------
(* One compose screen and its send workers *)

ComposeNext ==
    \/ ActionCompose
    \/ \E recipient \in ComposeRecipients, message \in ComposeTexts :
          ComposeType(recipient, message)
    \/ \E kind \in {"button", "enter", "ctrl+enter"} : action_send(kind)
    \/ SendMessageStart
    \/ \E i \in 1..MaxComposeSends, outcome \in {"sent", "failed", "raised"} :
          SendMessageDone(i, outcome)
    \/ action_cancel

SpecCompose == Init /\ [][ComposeNext]_vars

\* C30: ComposeScreen has at most one send request outstanding.
C30_OneSendOutstanding == Len(compose.requests) <= 1

====
